---- MODULE Spec2Model ----
(***************************************************************************)
(* Model of indra.belief.sklearn.wrapper: the SklearnBase facade (fit,     *)
(* predict, predict_proba, predict_log_proba, to_matrix) and the           *)
(* CountsModel feature-matrix builders (stmts_to_matrix, df_to_matrix).    *)
(*                                                                         *)
(* A behaviour is one configured CountsModel together with one piece of    *)
(* caller data (an ndarray, a statement DataFrame, a list of Statements or *)
(* something else); the caller repeatedly calls a method on it and takes   *)
(* the outcome.  Matrices are records [nrows, ncols, data] so that the     *)
(* shape of a 0-row array is kept, as numpy keeps it.                      *)
(***************************************************************************)
EXTENDS Integers, Sequences, FiniteSets, TLC

VARIABLES source_list, use_stmt_type, use_num_members, use_num_pmids,
          model, stmt_data, pc, ret, df, built

vars == <<source_list, use_stmt_type, use_num_members, use_num_pmids,
          model, stmt_data, pc, ret, df, built>>

config == <<source_list, use_stmt_type, use_num_members, use_num_pmids>>

-----------------------------------------------------------------------------
(* Bounds and input universes                                              *)

\* Longest statement list / table the caller passes.
MaxStmts == 2

\* evidence.source_api values that occur in the data.
Sources == {"reach", "sparser", "medscan"}

\* The source_list arguments a CountsModel is constructed with.
SourceLists == {<<"reach", "sparser">>, <<"sparser">>}

\* Names of the loaded Statement subclasses, in get_all_descendants order.
all_stmt_types == <<"Phosphorylation", "Activation">>

Ev(src, pmid) == [source_api |-> src, pmid |-> pmid]

\* The Statements the caller has.  CustomStmt is a Statement subclass that was
\* defined after the CountsModel was constructed.
StmtPool ==
    { [type |-> "Phosphorylation", agents |-> <<"MAP2K1", "MAPK1">>,
       evidence |-> <<Ev("reach", "p1"), Ev("reach", "p2"), Ev("medscan", "p2")>>],
      [type |-> "Activation", agents |-> <<"BRAF", "MAP2K1">>,
       evidence |-> <<Ev("sparser", "p2")>>],
      [type |-> "CustomStmt", agents |-> <<"A", "B", "C">>,
       evidence |-> <<Ev("reach", "p1"), Ev("sparser", "p1")>>] }

\* The evidence lists the caller may put in an extra_evidence argument.
ExtraPool ==
    { <<Ev("sparser", "p1"), Ev("sparser", "p2")>>,
      <<Ev("medscan", "p1")>> }

SeqsUpTo(S, n) == UNION { [1..k -> S] : k \in 0..n }

StmtLists == SeqsUpTo(StmtPool, MaxStmts)

\* extra_evidence: None, or a list of evidence lists (possibly of the wrong
\* length).
NoExtra == [is_none |-> TRUE, lists |-> <<>>]
Extras == {NoExtra} \cup
          { [is_none |-> FALSE, lists |-> l] : l \in SeqsUpTo(ExtraPool, MaxStmts + 1) }

\* How a statement DataFrame is laid out: with a source_counts column of
\* dicts, with one column per source, with a source column missing, or
\* without the stmt_hash column.
TableShapes == {"source_counts", "source_columns", "reach_column", "no_stmt_hash"}

TableColumns(shape) ==
    LET ids == {"agA_id", "agA_name", "agA_ns", "agB_id", "agB_name", "agB_ns", "stmt_type"}
    IN  IF shape = "source_counts" THEN ids \cup {"stmt_hash", "source_counts"}
        ELSE IF shape = "source_columns" THEN ids \cup {"stmt_hash"} \cup Sources
        ELSE IF shape = "reach_column" THEN ids \cup {"stmt_hash", "reach"}
        ELSE ids \cup {"source_counts"}

\* Number of evidences of stmt that come from src.
Tally(evidence, src) == Cardinality({ k \in DOMAIN evidence : evidence[k].source_api = src })

\* The DataFrame row an IndraNet holds for a statement.
TableRow(stmt, columns) ==
    [c \in columns |->
        IF c = "stmt_type" THEN stmt.type
        ELSE IF c = "source_counts"
        THEN [s \in { stmt.evidence[k].source_api : k \in DOMAIN stmt.evidence } |->
                 Tally(stmt.evidence, s)]
        ELSE IF c \in Sources THEN Tally(stmt.evidence, c)
        ELSE IF c = "agA_name" THEN stmt.agents[1]
        ELSE IF c = "agB_name" THEN stmt.agents[2]
        ELSE "-"]

Table(stmts, shape) ==
    [tag |-> "DataFrame", columns |-> TableColumns(shape),
     rows |-> [i \in DOMAIN stmts |-> TableRow(stmts[i], TableColumns(shape))]]

Tables == { Table(stmts, shape) : stmts \in StmtLists, shape \in TableShapes }

\* Numeric arrays the caller has built already.
Arrays ==
    { [tag |-> "ndarray",
       arr |-> [nrows |-> n, ncols |-> c, none |-> FALSE,
                data |-> [i \in 1..n |-> [j \in 1..c |-> (i * j) % 3]]]] :
        n \in 0..MaxStmts, c \in {1, 3} }

\* What the caller may pass as stmt_data.
StmtData ==
    { [tag |-> "list", stmts |-> stmts] : stmts \in StmtLists }
    \cup Tables \cup Arrays
    \cup { [tag |-> "tuple", items |-> stmts] : stmts \in SeqsUpTo(StmtPool, 1) }

\* y_arr: label vectors of every length up to one more than the data.
YArrs == { [i \in 1..k |-> i % 2] : k \in 0..(MaxStmts + 1) }

-----------------------------------------------------------------------------
(* Values                                                                  *)

NoError == [type |-> "none", msg |-> ""]
ValueError(m) == [type |-> "ValueError", msg |-> m]
KeyError(m) == [type |-> "KeyError", msg |-> m]
TypeError(m) == [type |-> "TypeError", msg |-> m]

NoMatrix == [nrows |-> 0, ncols |-> 0, data |-> <<>>, none |-> TRUE]
Matrix(n, c, d) == [nrows |-> n, ncols |-> c, data |-> d, none |-> FALSE]

\* Outcome of a builder: the exception raised, or the array returned and
\* whether the source_list coverage message was logged.
Raise(e) == [err |-> e, arr |-> NoMatrix, logged |-> FALSE]
Returns(a, logged) == [err |-> NoError, arr |-> a, logged |-> logged]

Range(s) == { s[i] : i \in DOMAIN s }

\* np.array(list of equally long rows)
np_array(rows) ==
    Matrix(Len(rows), IF rows = <<>> THEN 0 ELSE Len(rows[1]), rows)

\* np.hstack((a, b)) for two 2-D arrays with the same number of rows
np_hstack(a, b) ==
    Matrix(a.nrows, a.ncols + b.ncols, [i \in 1..a.nrows |-> a.data[i] \o b.data[i]])

\* collections.Counter(sources).get(src, 0)
Count(sources, src) == Cardinality({ k \in DOMAIN sources : sources[k] = src })

\* collections.Counter(sources): a mapping defined on the sources that occur
Counter(sources) == [s \in Range(sources) |-> Count(sources, s)]

-----------------------------------------------------------------------------
(* indra.belief helpers                                                    *)

ExtraLengthError ==
    ValueError("extra_evidence must be a list of the same length as stmts")

\* check_extra_evidence(extra_evidence, num_stmts): the error it raises, if any
check_extra_evidence(extra_evidence, num_stmts) ==
    IF ~extra_evidence.is_none /\ Len(extra_evidence.lists) # num_stmts
    THEN ExtraLengthError
    ELSE NoError

\* get_stmt_evidence(stmt, ix, extra_evidence), ix counted from 1.  After
\* check_extra_evidence has passed, ix is always an index of the list.
get_stmt_evidence(stmt, ix, extra_evidence) ==
    IF extra_evidence.is_none THEN stmt.evidence
    ELSE IF ix \in DOMAIN extra_evidence.lists THEN extra_evidence.lists[ix]
    ELSE <<>>

-----------------------------------------------------------------------------
(* CountsModel                                                             *)

\* self.stmt_type_map = {t.__name__: ix for ix, t in enumerate(all_stmt_types)}
stmt_type_map ==
    [t \in Range(all_stmt_types) |->
        (CHOOSE ix \in DOMAIN all_stmt_types : all_stmt_types[ix] = t) - 1]

\* [1 if ix == stmt_type_ix else 0 for ix in range(len(self.stmt_type_map))]
type_features(stmt_type_ix) ==
    [k \in 1..Cardinality(DOMAIN stmt_type_map) |->
        IF k - 1 = stmt_type_ix THEN 1 ELSE 0]

\* len(pmids) for pmids = {ev.pmid for ev in stmt_ev}
num_pmids(stmt_ev) == Cardinality({ stmt_ev[k].pmid : k \in DOMAIN stmt_ev })

\* [ev.source_api for ev in stmt_ev]
source_apis(stmt_ev) == [k \in DOMAIN stmt_ev |-> stmt_ev[k].source_api]

\* source_count_row with the evidence from sources outside source_list
\* counted in the last column instead of in none.
source_count_row_other(stmt_ev) ==
    [src_ix \in 1..Len(source_list) |->
        Count(source_apis(stmt_ev), source_list[src_ix])
        + (IF src_ix = Len(source_list)
           THEN Cardinality({ k \in DOMAIN stmt_ev :
                                stmt_ev[k].source_api \notin Range(source_list) })
           ELSE 0)]

\* One row of the source count block: src_ctr.get(src, 0) for each src of
\* self.source_list, in order.
source_count_row(stmt_ev) ==
    [src_ix \in 1..Len(source_list) |->
        Count(source_apis(stmt_ev), source_list[src_ix])]

\* feature_row with the number of pmids appended before the number of members.
feature_row_pmids_first(stmt, stmt_ev) ==
    (IF use_stmt_type THEN type_features(stmt_type_map[stmt.type]) ELSE <<>>)
    \o (IF use_num_pmids THEN <<num_pmids(stmt_ev)>> ELSE <<>>)
    \o (IF use_num_members THEN <<Len(stmt.agents)>> ELSE <<>>)

\* feature_row of stmts_to_matrix for one statement and its evidence
feature_row(stmt, stmt_ev) ==
    (IF use_stmt_type THEN type_features(stmt_type_map[stmt.type]) ELSE <<>>)
    \o (IF use_num_members THEN <<Len(stmt.agents)>> ELSE <<>>)
    \o (IF use_num_pmids THEN <<num_pmids(stmt_ev)>> ELSE <<>>)

\* Lines 218-223 of stmts_to_matrix: the categorical features, if there are
\* any, go to the right of the source counts.
stmts_hstack(x_arr, cat_features) ==
    IF cat_features # <<>> THEN np_hstack(x_arr, np_array(cat_features)) ELSE x_arr

\* stmts_to_matrix after the check of extra_evidence: the two loops
stmts_loops(stmts, extra_evidence) ==
    LET num_rows == Len(stmts)
        \* first loop: evidence of statement i, resolved with its own index
        first_ev(i) == get_stmt_evidence(stmts[i], i, extra_evidence)
        unknown_type == use_stmt_type
                        /\ \E i \in 1..num_rows : stmts[i].type \notin DOMAIN stmt_type_map
        rows == [i \in 1..num_rows |-> feature_row(stmts[i], first_ev(i))]
        cat_features == SelectSeq(rows, LAMBDA r : r # <<>>)
        stmt_sources == UNION { Range(source_apis(first_ev(i))) : i \in 1..num_rows }
        \* the value the first loop leaves in ix: the index of the last statement
        ix == num_rows
        \* second loop (lines 211-216): the evidence is resolved with ix, which
        \* no longer changes, not with stmt_ix; the list comprehension of the
        \* first loop has an ix of its own and leaves this one alone
        x_arr == Matrix(num_rows, Len(source_list),
                        [stmt_ix \in 1..num_rows |->
                            source_count_row(
                                get_stmt_evidence(stmts[stmt_ix], ix, extra_evidence))])
    IN  IF unknown_type THEN Raise(KeyError("stmt_type_map"))
        ELSE Returns(stmts_hstack(x_arr, cat_features),
                     stmt_sources \ Range(source_list) # {})

\* stmts_to_matrix without the call of check_extra_evidence.
stmts_to_matrix_unchecked(stmts, extra_evidence) ==
    stmts_loops(stmts, extra_evidence)

\* CountsModel.stmts_to_matrix(stmts, extra_evidence)
stmts_to_matrix(stmts, extra_evidence) ==
    LET checked == check_extra_evidence(extra_evidence, Len(stmts))
    IN  IF checked # NoError THEN Raise(checked)
        ELSE stmts_loops(stmts, extra_evidence)

required_cols ==
    {"agA_id", "agA_name", "agA_ns", "agB_id", "agB_name", "agB_ns",
     "stmt_hash", "stmt_type"}

UseNumMembersError == ValueError("use_num_members not supported for statement DataFrames.")
UseNumPmidsError == ValueError("use_num_pmids not supported for statement DataFrames.")
RequiredColsError == ValueError("Statement DataFrame is missing required columns.")
SourceColError == ValueError("Expected column not in the given statement DataFrame")

\* df_checks with the column checks made before the feature flag checks.
df_checks_columns_first(frame) ==
    IF ~(required_cols \subseteq frame.columns) THEN RequiredColsError
    ELSE IF "source_counts" \notin frame.columns
            /\ \E k \in DOMAIN source_list : source_list[k] \notin frame.columns
    THEN SourceColError
    ELSE IF use_num_members THEN UseNumMembersError
    ELSE IF use_num_pmids THEN UseNumPmidsError
    ELSE NoError

\* The checks df_to_matrix makes before it reads a row: the error raised, if any
df_checks(frame) ==
    IF use_num_members THEN UseNumMembersError
    ELSE IF use_num_pmids THEN UseNumPmidsError
    ELSE IF ~(required_cols \subseteq frame.columns) THEN RequiredColsError
    ELSE IF "source_counts" \notin frame.columns
            /\ \E k \in DOMAIN source_list : source_list[k] \notin frame.columns
    THEN SourceColError
    ELSE NoError

\* feature_row of df_to_matrix for one row of the DataFrame
df_feature_row(rowtup) ==
    IF use_stmt_type THEN type_features(stmt_type_map[rowtup["stmt_type"]]) ELSE <<>>

\* One row of the source count block of df_to_matrix
df_source_count_row(rowtup, has_sc_col) ==
    [src_ix \in 1..Len(source_list) |->
        IF has_sc_col
        THEN (IF source_list[src_ix] \in DOMAIN rowtup["source_counts"]
              THEN rowtup["source_counts"][source_list[src_ix]] ELSE 0)
        ELSE rowtup[source_list[src_ix]]]

\* df_hstack with the categorical features to the left of the source counts.
df_hstack_cat_first(x_arr, cat_features) ==
    IF cat_features # <<>> THEN np_hstack(np_array(cat_features), x_arr) ELSE x_arr

\* Lines 298-303 of df_to_matrix
df_hstack(x_arr, cat_features) ==
    IF cat_features # <<>> THEN np_hstack(x_arr, np_array(cat_features)) ELSE x_arr

\* df_to_matrix after its checks: the two loops over the rows
df_loops(frame) ==
    LET has_sc_col == "source_counts" \in frame.columns
        num_rows == Len(frame.rows)
        unknown_type == use_stmt_type
                        /\ \E i \in 1..num_rows :
                              frame.rows[i]["stmt_type"] \notin DOMAIN stmt_type_map
        rows == [i \in 1..num_rows |-> df_feature_row(frame.rows[i])]
        cat_features == SelectSeq(rows, LAMBDA r : r # <<>>)
        stmt_sources == IF has_sc_col
                        THEN UNION { DOMAIN frame.rows[i]["source_counts"] : i \in 1..num_rows }
                        ELSE {}
        x_arr == Matrix(num_rows, Len(source_list),
                        [stmt_ix \in 1..num_rows |->
                            df_source_count_row(frame.rows[stmt_ix], has_sc_col)])
    IN  IF unknown_type THEN Raise(KeyError("stmt_type_map"))
        ELSE Returns(df_hstack(x_arr, cat_features),
                     has_sc_col /\ stmt_sources \ Range(source_list) # {})

\* CountsModel.df_to_matrix(df)
df_to_matrix(frame) ==
    IF df_checks(frame) # NoError THEN Raise(df_checks(frame)) ELSE df_loops(frame)

-----------------------------------------------------------------------------
(* SklearnBase                                                             *)

ExtraWithDataFrameError ==
    ValueError("extra_evidence cannot be used with a statement DataFrame.")
StmtDataTypeError ==
    TypeError("stmt_data must be a numpy array, DataFrame, or list of Statements")
YArrLengthError == ValueError("Number of stmts/rows must match length of y_arr.")

\* to_matrix that hands a DataFrame to df_to_matrix whatever extra_evidence is.
to_matrix_df_unchecked(data, extra_evidence) ==
    IF data.tag = "ndarray" THEN Returns(data.arr, FALSE)
    ELSE IF data.tag = "DataFrame" THEN df_to_matrix(data)
    ELSE IF data.tag = "list" THEN stmts_to_matrix(data.stmts, extra_evidence)
    ELSE Raise(StmtDataTypeError)

\* to_matrix that checks extra_evidence against the rows of an ndarray too.
to_matrix_array_checked(data, extra_evidence) ==
    IF data.tag = "ndarray"
    THEN IF check_extra_evidence(extra_evidence, data.arr.nrows) # NoError
         THEN Raise(check_extra_evidence(extra_evidence, data.arr.nrows))
         ELSE Returns(data.arr, FALSE)
    ELSE IF data.tag = "DataFrame"
    THEN IF ~extra_evidence.is_none
         THEN Raise(ExtraWithDataFrameError)
         ELSE df_to_matrix(data)
    ELSE IF data.tag = "list" THEN stmts_to_matrix(data.stmts, extra_evidence)
    ELSE Raise(StmtDataTypeError)

\* SklearnBase.to_matrix(stmt_data, extra_evidence=None); fit calls it with
\* stmt_data alone.
to_matrix(data, extra_evidence) ==
    IF data.tag = "ndarray" THEN Returns(data.arr, FALSE)
    ELSE IF data.tag = "DataFrame"
    THEN IF ~extra_evidence.is_none
         THEN Raise(ExtraWithDataFrameError)
         ELSE df_to_matrix(data)
    ELSE IF data.tag = "list" THEN stmts_to_matrix(data.stmts, extra_evidence)
    ELSE Raise(StmtDataTypeError)

\* len(stmt_data)
len(data) ==
    IF data.tag = "ndarray" THEN data.arr.nrows
    ELSE IF data.tag = "DataFrame" THEN Len(data.rows)
    ELSE IF data.tag = "list" THEN Len(data.stmts)
    ELSE Len(data.items)

\* The wrapped classifier: it records what it was fitted on and answers with
\* one output per row of the matrix it is given.
Unfitted == [fitted |-> FALSE, n_samples |-> 0, n_features |-> 0]
model_fit(X, y_arr) == [fitted |-> TRUE, n_samples |-> X.nrows, n_features |-> X.ncols]
model_predict(method, X) == [i \in 1..X.nrows |-> <<method, i>>]

Call(method, X, y_arr) == [method |-> method, X |-> X, y |-> y_arr]

\* What a call of the facade left behind: the arguments, the exception raised
\* (or none), the matrix to_matrix returned, the calls made on self.model, the
\* output returned and whether the return value is the facade itself.
Outcome(op, y_arr, extra_evidence, err, stmt_arr, calls, out, self) ==
    [op |-> op, y_arr |-> y_arr, extra_evidence |-> extra_evidence, err |-> err,
     stmt_arr |-> stmt_arr, calls |-> calls, out |-> out, self |-> self]

NoCall == Outcome("none", <<>>, NoExtra, NoError, NoMatrix, <<>>, <<>>, FALSE)

NoTable == [tag |-> "DataFrame", columns |-> {}, rows |-> <<>>]
NotBuilt == [err |-> NoError, arr |-> NoMatrix, logged |-> FALSE, called |-> FALSE]
Built(r) == [err |-> r.err, arr |-> r.arr, logged |-> r.logged, called |-> TRUE]

\* fit without the comparison of len(stmt_data) and len(y_arr).
fit_unchecked(data, y_arr) ==
    LET m == to_matrix(data, NoExtra)
    IN  IF m.err # NoError
        THEN [ret |-> Outcome("fit", y_arr, NoExtra, m.err, NoMatrix, <<>>, <<>>, FALSE),
              model |-> model]
        ELSE [ret |-> Outcome("fit", y_arr, NoExtra, NoError, m.arr,
                              <<Call("fit", m.arr, y_arr)>>, <<>>, TRUE),
              model |-> model_fit(m.arr, y_arr)]

\* SklearnBase.fit(stmt_data, y_arr): the outcome and the classifier afterwards
fit(data, y_arr) ==
    IF len(data) # Len(y_arr)
    THEN [ret |-> Outcome("fit", y_arr, NoExtra,
                          YArrLengthError,
                          NoMatrix, <<>>, <<>>, FALSE),
          model |-> model]
    ELSE LET m == to_matrix(data, NoExtra)
         IN  IF m.err # NoError
             THEN [ret |-> Outcome("fit", y_arr, NoExtra, m.err, NoMatrix, <<>>, <<>>, FALSE),
                   model |-> model]
             ELSE [ret |-> Outcome("fit", y_arr, NoExtra, NoError, m.arr,
                                   <<Call("fit", m.arr, y_arr)>>, <<>>, TRUE),
                   model |-> model_fit(m.arr, y_arr)]

\* predict_with whose extra_evidence defaults to an empty list, not to None.
predict_with_list_default(method, data, extra_evidence) ==
    LET given == IF extra_evidence.is_none
                 THEN [is_none |-> FALSE, lists |-> <<>>] ELSE extra_evidence
        m == to_matrix(data, given)
    IN  IF m.err # NoError
        THEN Outcome(method, <<>>, extra_evidence, m.err, NoMatrix, <<>>, <<>>, FALSE)
        ELSE Outcome(method, <<>>, extra_evidence, NoError, m.arr,
                     <<Call(method, m.arr, <<>>)>>, model_predict(method, m.arr), FALSE)

\* SklearnBase.predict, predict_proba and predict_log_proba
predict_with(method, data, extra_evidence) ==
    LET m == to_matrix(data, extra_evidence)
    IN  IF m.err # NoError
        THEN Outcome(method, <<>>, extra_evidence, m.err, NoMatrix, <<>>, <<>>, FALSE)
        ELSE Outcome(method, <<>>, extra_evidence, NoError, m.arr,
                     <<Call(method, m.arr, <<>>)>>, model_predict(method, m.arr), FALSE)

-----------------------------------------------------------------------------
(* The facade in use                                                       *)

Init ==
    /\ source_list \in SourceLists
    /\ use_stmt_type \in BOOLEAN
    /\ use_num_members \in BOOLEAN
    /\ use_num_pmids \in BOOLEAN
    /\ model = Unfitted
    /\ stmt_data \in StmtData
    /\ pc = "ready"
    /\ ret = NoCall
    /\ df = NoTable
    /\ built = [stmts |-> NotBuilt, df |-> NotBuilt]

Fit ==
    /\ pc = "ready"
    /\ \E y_arr \in YArrs :
          /\ ret' = fit(stmt_data, y_arr).ret
          /\ model' = fit(stmt_data, y_arr).model
    /\ pc' = "returned"
    /\ UNCHANGED <<config, stmt_data, df, built>>

Predict ==
    /\ pc = "ready"
    /\ \E extra_evidence \in Extras :
          ret' = predict_with("predict", stmt_data, extra_evidence)
    /\ pc' = "returned"
    /\ UNCHANGED <<config, model, stmt_data, df, built>>

PredictProba ==
    /\ pc = "ready"
    /\ \E extra_evidence \in Extras :
          ret' = predict_with("predict_proba", stmt_data, extra_evidence)
    /\ pc' = "returned"
    /\ UNCHANGED <<config, model, stmt_data, df, built>>

PredictLogProba ==
    /\ pc = "ready"
    /\ \E extra_evidence \in Extras :
          ret' = predict_with("predict_log_proba", stmt_data, extra_evidence)
    /\ pc' = "returned"
    /\ UNCHANGED <<config, model, stmt_data, df, built>>

ToMatrix ==
    /\ pc = "ready"
    /\ \E extra_evidence \in Extras :
          LET m == to_matrix(stmt_data, extra_evidence)
          IN  ret' = Outcome("to_matrix", <<>>, extra_evidence, m.err, m.arr,
                             <<>>, <<>>, FALSE)
    /\ pc' = "returned"
    /\ UNCHANGED <<config, model, stmt_data, df, built>>

\* The caller calls the builder of the CountsModel directly.
StmtsToMatrix ==
    /\ pc = "ready"
    /\ stmt_data.tag = "list"
    /\ \E extra_evidence \in Extras :
          LET m == stmts_to_matrix(stmt_data.stmts, extra_evidence)
          IN  ret' = Outcome("stmts_to_matrix", <<>>, extra_evidence, m.err, m.arr,
                             <<>>, <<>>, FALSE)
    /\ pc' = "returned"
    /\ UNCHANGED <<config, model, stmt_data, df, built>>

DfToMatrix ==
    /\ pc = "ready"
    /\ stmt_data.tag = "DataFrame"
    /\ LET m == df_to_matrix(stmt_data)
       IN  ret' = Outcome("df_to_matrix", <<>>, NoExtra, m.err, m.arr, <<>>, <<>>, FALSE)
    /\ pc' = "returned"
    /\ UNCHANGED <<config, model, stmt_data, df, built>>

\* The caller takes the outcome and is ready for the next call.
TakeResult ==
    /\ pc = "returned"
    /\ pc' = "ready"
    /\ ret' = NoCall
    /\ UNCHANGED <<config, model, stmt_data, df, built>>

Next ==
    \/ Fit
    \/ Predict
    \/ PredictProba
    \/ PredictLogProba
    \/ ToMatrix
    \/ StmtsToMatrix
    \/ DfToMatrix
    \/ TakeResult

Spec == Init /\ [][Next]_vars

-----------------------------------------------------------------------------
(* The two builders side by side: the caller holds a list of Statements    *)
(* and a statement DataFrame and runs each builder of one CountsModel.     *)

InitBoth ==
    /\ source_list \in SourceLists
    /\ use_stmt_type \in BOOLEAN
    /\ use_num_members \in BOOLEAN
    /\ use_num_pmids \in BOOLEAN
    /\ model = Unfitted
    /\ stmt_data \in { [tag |-> "list", stmts |-> stmts] : stmts \in StmtLists }
    /\ pc = "ready"
    /\ ret = NoCall
    /\ df \in Tables
    /\ built = [stmts |-> NotBuilt, df |-> NotBuilt]

BuildFromStmts ==
    /\ ~built.stmts.called
    /\ built' = [built EXCEPT !.stmts = Built(stmts_to_matrix(stmt_data.stmts, NoExtra))]
    /\ UNCHANGED <<config, model, stmt_data, pc, ret, df>>

BuildFromDf ==
    /\ ~built.df.called
    /\ built' = [built EXCEPT !.df = Built(df_to_matrix(df))]
    /\ UNCHANGED <<config, model, stmt_data, pc, ret, df>>

NextBoth == BuildFromStmts \/ BuildFromDf

SpecBoth == InitBoth /\ [][NextBoth]_vars

-----------------------------------------------------------------------------
(* Properties                                                              *)

\* The spec's error classes, by the raise statement an exception comes from.
IsValidationError(e) ==
    e \in {ExtraLengthError, ExtraWithDataFrameError, YArrLengthError}
IsConfigurationError(e) ==
    e \in {UseNumMembersError, UseNumPmidsError, RequiredColsError, SourceColError}

PredictOps == {"predict", "predict_proba", "predict_log_proba"}

\* A call that ran the statement-driven builder on the caller's list has returned.
StmtsCall ==
    /\ pc = "returned"
    /\ stmt_data.tag = "list"
    /\ ret.op \in {"stmts_to_matrix", "to_matrix"} \cup PredictOps

\* A call that reached the table-driven builder has returned.
DfCall ==
    /\ pc = "returned"
    /\ stmt_data.tag = "DataFrame"
    /\ \/ ret.op = "df_to_matrix"
       \/ ret.op \in {"to_matrix"} \cup PredictOps /\ ret.extra_evidence.is_none
       \/ ret.op = "fit" /\ Len(ret.y_arr) = Len(stmt_data.rows)

KindsKnown(stmts) == \A i \in DOMAIN stmts : stmts[i].type \in DOMAIN stmt_type_map

\* <<Tally(evidence, source_list[1]), ..., Tally(evidence, source_list[n])>>
TallyRow(evidence) == [j \in DOMAIN source_list |-> Tally(evidence, source_list[j])]

\* C1: a statement-driven call with an extra_evidence list whose length is not
\* the number of statements fails with the length ValidationError under every
\* setting of the feature flags, returns no matrix and makes no call on the
\* classifier.
C1_MismatchedExtraFails ==
    (StmtsCall /\ ~ret.extra_evidence.is_none
       /\ Len(ret.extra_evidence.lists) # Len(stmt_data.stmts))
    => /\ ret.err = ExtraLengthError
       /\ IsValidationError(ret.err)
       /\ ret.stmt_arr = NoMatrix
       /\ ret.calls = <<>>
       /\ ret.out = <<>>

\* C1 witness: predict_proba on two statements, one of a type missing from the
\* type map, with one override entry and use_stmt_type on, has failed.
C1_Witness ==
    /\ StmtsCall /\ ret.op = "predict_proba"
    /\ use_stmt_type /\ use_num_pmids
    /\ Len(stmt_data.stmts) = 2 /\ ~KindsKnown(stmt_data.stmts)
    /\ ~ret.extra_evidence.is_none /\ Len(ret.extra_evidence.lists) = 1
    /\ ret.err = ExtraLengthError

\* C2: with an extra_evidence list of the right length, cell [i, j] of the
\* source count block is the number of evidences of override entry i that come
\* from source_list[j].
C2_OverrideCountsPerRow ==
    (StmtsCall /\ ~ret.extra_evidence.is_none /\ ret.err = NoError)
    => \A i \in DOMAIN stmt_data.stmts :
          SubSeq(ret.stmt_arr.data[i], 1, Len(source_list))
              = TallyRow(ret.extra_evidence.lists[i])

\* C3 as stated: without extra_evidence the statement-driven builder raises
\* nothing for any statement list, and cell [i, j] is the number of evidences
\* of statement i that come from source_list[j].
C3_NoOverrideNeverFails ==
    (StmtsCall /\ ret.extra_evidence.is_none)
    => /\ ret.err = NoError
       /\ \A i \in DOMAIN stmt_data.stmts :
             SubSeq(ret.stmt_arr.data[i], 1, Len(source_list))
                 = TallyRow(stmt_data.stmts[i].evidence)

\* C3 amended: without extra_evidence, and with every statement's type in the
\* type map when use_stmt_type is on, the statement-driven builder raises
\* nothing, whatever sources the evidence has, and cell [i, j] is the number of
\* evidences of statement i that come from source_list[j]; a source outside
\* source_list is counted in no column.
C3_NoOverrideCounts ==
    (StmtsCall /\ ret.extra_evidence.is_none
       /\ (use_stmt_type => KindsKnown(stmt_data.stmts)))
    => /\ ret.err = NoError
       /\ ret.stmt_arr.nrows = Len(stmt_data.stmts)
       /\ \A i \in DOMAIN stmt_data.stmts :
             SubSeq(ret.stmt_arr.data[i], 1, Len(source_list))
                 = TallyRow(stmt_data.stmts[i].evidence)

\* C3 witness: source_list is [reach, sparser], the first statement has
\* evidence from reach, reach and medscan, and its row starts with [2, 0].
C3_Witness ==
    /\ StmtsCall /\ ret.extra_evidence.is_none /\ ret.err = NoError
    /\ source_list = <<"reach", "sparser">>
    /\ Len(stmt_data.stmts) >= 1
    /\ source_apis(stmt_data.stmts[1].evidence) = <<"reach", "reach", "medscan">>
    /\ SubSeq(ret.stmt_arr.data[1], 1, 2) = <<2, 0>>

\* The evidence lists a row's source counts may have been taken from.
EvidenceChoices(i) ==
    {stmt_data.stmts[i].evidence} \cup Range(ret.extra_evidence.lists)

\* The evidence the statement-driven builder is to use for statement i.
ResolvedEvidence(i) ==
    IF ret.extra_evidence.is_none THEN stmt_data.stmts[i].evidence
    ELSE ret.extra_evidence.lists[i]

NumTypes == Len(all_stmt_types)
TypeWidth == IF use_stmt_type THEN NumTypes ELSE 0
MembersWidth == IF use_num_members THEN 1 ELSE 0
PmidsWidth == IF use_num_pmids THEN 1 ELSE 0

\* C4: every row the statement-driven builder returns is, in this order, the
\* source counts in source_list order, the one-hot type columns if
\* use_stmt_type, the number of members if use_num_members, the number of
\* distinct pmids if use_num_pmids, and nothing else.
C4_ColumnOrder ==
    (StmtsCall /\ ret.err = NoError)
    => \A i \in DOMAIN stmt_data.stmts :
          LET row == ret.stmt_arr.data[i]
              stmt == stmt_data.stmts[i]
              n == Len(source_list)
          IN  /\ Len(row) = n + TypeWidth + MembersWidth + PmidsWidth
              /\ ret.stmt_arr.ncols = Len(row)
              /\ \E ev \in EvidenceChoices(i) : SubSeq(row, 1, n) = TallyRow(ev)
              /\ use_stmt_type =>
                    \A k \in 1..NumTypes :
                        row[n + k] = IF all_stmt_types[k] = stmt.type THEN 1 ELSE 0
              /\ use_num_members => row[n + TypeWidth + 1] = Len(stmt.agents)
              /\ use_num_pmids =>
                    row[n + TypeWidth + MembersWidth + 1]
                        = Cardinality({ ResolvedEvidence(i)[k].pmid :
                                            k \in DOMAIN ResolvedEvidence(i) })

\* C4 witness: all three feature flags are on and a row with two source counts,
\* an Activation statement, two members and one pmid has been returned.
C4_Witness ==
    /\ StmtsCall /\ ret.err = NoError
    /\ use_stmt_type /\ use_num_members /\ use_num_pmids
    /\ source_list = <<"reach", "sparser">>
    /\ Len(stmt_data.stmts) = 2
    /\ ret.stmt_arr.data[2] = <<0, 1, 0, 1, 2, 1>>

\* The table describes the statements: as many rows as statements, row i has
\* the type of statement i and, for every source of source_list, the number of
\* evidences of statement i from that source.
Describes(frame, stmts) ==
    /\ required_cols \subseteq frame.columns
    /\ "source_counts" \in frame.columns \/ Range(source_list) \subseteq frame.columns
    /\ Len(frame.rows) = Len(stmts)
    /\ \A i \in DOMAIN stmts :
          /\ frame.rows[i]["stmt_type"] = stmts[i].type
          /\ \A src \in Range(source_list) :
                Tally(stmts[i].evidence, src)
                    = IF "source_counts" \in frame.columns
                      THEN (IF src \in DOMAIN frame.rows[i]["source_counts"]
                            THEN frame.rows[i]["source_counts"][src] ELSE 0)
                      ELSE frame.rows[i][src]

BothBuilt == built.stmts.called /\ built.df.called

\* C5: with use_num_members and use_num_pmids off, when the DataFrame describes
\* the statement list the two builders end alike: both raise the same error or
\* both return the same matrix, column for column.
C5_BuildersAgree ==
    (BothBuilt /\ ~use_num_members /\ ~use_num_pmids
       /\ Describes(df, stmt_data.stmts))
    => /\ built.stmts.err = built.df.err
       /\ built.stmts.arr = built.df.arr
       /\ KindsKnown(stmt_data.stmts) \/ ~use_stmt_type => built.df.err = NoError

\* C5 witness: use_stmt_type is on, the table has one column per source and
\* describes two statements with different source counts, and both builders
\* have returned a matrix of two rows and four columns.
C5_Witness ==
    /\ BothBuilt /\ use_stmt_type /\ ~use_num_members /\ ~use_num_pmids
    /\ source_list = <<"reach", "sparser">>
    /\ "source_counts" \notin df.columns
    /\ Describes(df, stmt_data.stmts)
    /\ built.df.err = NoError
    /\ built.df.arr.data = << <<2, 0, 1, 0>>, <<0, 1, 0, 1>> >>
    /\ built.stmts.arr.data = built.df.arr.data

\* C5 witness for the other layout: a source_counts column of dicts.
C5_WitnessDicts ==
    /\ BothBuilt /\ ~use_stmt_type /\ ~use_num_members /\ ~use_num_pmids
    /\ "source_counts" \in df.columns
    /\ Describes(df, stmt_data.stmts)
    /\ Len(stmt_data.stmts) = 2
    /\ built.df.err = NoError
    /\ built.df.arr.data[1] # built.df.arr.data[2]

\* C6: with use_num_members or use_num_pmids on, df_to_matrix raises the
\* ConfigurationError of that flag for every table, whatever columns and rows
\* it has, and returns nothing.
C6_TableRejectsCounts ==
    (DfCall /\ (use_num_members \/ use_num_pmids))
    => /\ ret.err = IF use_num_members THEN UseNumMembersError ELSE UseNumPmidsError
       /\ IsConfigurationError(ret.err)
       /\ ret.stmt_arr = NoMatrix
       /\ ret.calls = <<>>

\* C6 witness: df_to_matrix was called with use_num_pmids on for a table that
\* has no stmt_hash column and a row of a type missing from the type map.
C6_Witness ==
    /\ DfCall /\ ret.op = "df_to_matrix"
    /\ use_num_pmids /\ ~use_num_members /\ use_stmt_type
    /\ "stmt_hash" \notin stmt_data.columns
    /\ Len(stmt_data.rows) >= 1
    /\ stmt_data.rows[1]["stmt_type"] \notin DOMAIN stmt_type_map
    /\ ret.err = UseNumPmidsError

\* C7: to_matrix and the predict methods, given a DataFrame and an
\* extra_evidence that is not None, raise the ValidationError of to_matrix:
\* no error of df_to_matrix, no matrix, no call on the classifier.
C7_TableWithExtraFails ==
    (/\ pc = "returned" /\ stmt_data.tag = "DataFrame"
     /\ ret.op \in {"to_matrix"} \cup PredictOps
     /\ ~ret.extra_evidence.is_none)
    => /\ ret.err = ExtraWithDataFrameError
       /\ IsValidationError(ret.err)
       /\ ret.stmt_arr = NoMatrix
       /\ ret.calls = <<>>
       /\ ret.out = <<>>

\* C7 witness: predict with use_num_members on (so df_to_matrix would raise its
\* own error), a table of two rows and two override entries.
C7_Witness ==
    /\ pc = "returned" /\ stmt_data.tag = "DataFrame" /\ ret.op = "predict"
    /\ use_num_members
    /\ Len(stmt_data.rows) = 2
    /\ ~ret.extra_evidence.is_none /\ Len(ret.extra_evidence.lists) = 2
    /\ ret.err = ExtraWithDataFrameError

\* C8: fit with len(stmt_data) # len(y_arr) raises the ValidationError of fit
\* for every kind of stmt_data, builds no matrix and does not call
\* self.model.fit; with equal lengths and a matrix built by to_matrix without
\* extra_evidence, it calls self.model.fit once, with that matrix and y_arr,
\* and returns self.
C8_FitChecksLengths ==
    (pc = "returned" /\ ret.op = "fit")
    => /\ len(stmt_data) # Len(ret.y_arr)
          => /\ ret.err = YArrLengthError
             /\ IsValidationError(ret.err)
             /\ ret.stmt_arr = NoMatrix
             /\ ret.calls = <<>>
             /\ ~ret.self
       /\ (len(stmt_data) = Len(ret.y_arr) /\ to_matrix(stmt_data, NoExtra).err = NoError)
          => /\ ret.err = NoError
             /\ ret.calls = <<Call("fit", to_matrix(stmt_data, NoExtra).arr, ret.y_arr)>>
             /\ ret.self
             /\ model = model_fit(to_matrix(stmt_data, NoExtra).arr, ret.y_arr)
       /\ ret.err # NoError => ret.calls = <<>> /\ ~ret.self

\* C8 witness: fit on two statements with three labels has failed.
C8_Witness ==
    /\ pc = "returned" /\ ret.op = "fit"
    /\ stmt_data.tag = "list" /\ Len(stmt_data.stmts) = 2 /\ Len(ret.y_arr) = 3
    /\ ret.err = YArrLengthError

\* C8 witness for the other half: fit on a table of two rows with two labels
\* has called self.model.fit once and returned self.
C8_WitnessFitted ==
    /\ pc = "returned" /\ ret.op = "fit"
    /\ stmt_data.tag = "DataFrame" /\ Len(stmt_data.rows) = 2 /\ Len(ret.y_arr) = 2
    /\ Len(ret.calls) = 1 /\ ret.self /\ model.fitted

\* C9: for a statement list whose types are all in the type map, fit with as
\* many labels as statements raises nothing and hands the classifier a row per
\* statement; a predict on the same list afterwards raises nothing, hands the
\* classifier a matrix with a row per statement and the columns it was fitted
\* on, and returns one prediction per statement.
C9_FitThenPredict ==
    (pc = "returned" /\ stmt_data.tag = "list" /\ KindsKnown(stmt_data.stmts))
    => /\ (ret.op = "fit" /\ Len(ret.y_arr) = Len(stmt_data.stmts))
          => /\ ret.err = NoError
             /\ model.fitted
             /\ model.n_samples = Len(stmt_data.stmts)
             /\ Len(ret.stmt_arr.data) = Len(stmt_data.stmts)
       /\ (ret.op = "predict" /\ ret.extra_evidence.is_none /\ model.fitted)
          => /\ ret.err = NoError
             /\ Len(ret.calls) = 1
             /\ ret.stmt_arr.nrows = Len(stmt_data.stmts)
             /\ Len(ret.stmt_arr.data) = Len(stmt_data.stmts)
             /\ ret.stmt_arr.ncols = model.n_features
             /\ model.n_samples = Len(stmt_data.stmts)
             /\ Len(ret.out) = Len(stmt_data.stmts)

\* C9 witness: after a fit on two statements, with all feature flags on,
\* predict has returned two predictions.
C9_Witness ==
    /\ pc = "returned" /\ stmt_data.tag = "list" /\ KindsKnown(stmt_data.stmts)
    /\ use_stmt_type /\ use_num_members /\ use_num_pmids
    /\ ret.op = "predict" /\ ret.extra_evidence.is_none /\ model.fitted
    /\ Len(stmt_data.stmts) = 2
    /\ Len(ret.out) = 2
    /\ model.n_features = Len(source_list) + NumTypes + 2

\* C10: to_matrix returns an ndarray as it is, whatever extra_evidence is:
\* no error, and the array returned is the array given.
C10_ArrayPassesThrough ==
    (pc = "returned" /\ stmt_data.tag = "ndarray" /\ ret.op = "to_matrix")
    => /\ ret.err = NoError
       /\ ret.stmt_arr = stmt_data.arr
       /\ ret.calls = <<>>

\* C10 witness: an array of two rows came back from to_matrix although
\* extra_evidence had three entries.
C10_Witness ==
    /\ pc = "returned" /\ stmt_data.tag = "ndarray" /\ ret.op = "to_matrix"
    /\ stmt_data.arr.nrows = 2 /\ stmt_data.arr.ncols = 3
    /\ ~ret.extra_evidence.is_none /\ Len(ret.extra_evidence.lists) = 3
    /\ ret.stmt_arr = stmt_data.arr

\* A call that ran one of the two builders on the caller's list or table has
\* returned a matrix.
BuilderReturned ==
    /\ pc = "returned"
    /\ stmt_data.tag \in {"list", "DataFrame"}
    /\ ret.op # "none"
    /\ ret.err = NoError

\* The number of columns the configuration stands for.
ConfiguredWidth == Len(source_list) + TypeWidth + MembersWidth + PmidsWidth

\* C11: every matrix a builder returns, from a list or a table of any length,
\* zero included, in fit, in the predict methods and in direct calls, has
\* len(source_list) columns, plus one per statement type if use_stmt_type, plus
\* one if use_num_members, plus one if use_num_pmids.
C11_FixedWidth ==
    BuilderReturned => ret.stmt_arr.ncols = ConfiguredWidth

\* What holds of the width: it is the configured one when the input has a row
\* or no feature beside the source counts is on; for an input without rows it
\* is len(source_list) whatever the flags are.
C11_WidthOfBuilt ==
    BuilderReturned
    => /\ ret.stmt_arr.nrows = len(stmt_data)
       /\ ret.stmt_arr.ncols =
             IF len(stmt_data) = 0 THEN Len(source_list) ELSE ConfiguredWidth

\* The kinds of the caller's items: type(stmt).__name__ for a list, the
\* stmt_type column for a table.
ItemKinds ==
    IF stmt_data.tag = "list"
    THEN [i \in DOMAIN stmt_data.stmts |-> stmt_data.stmts[i].type]
    ELSE [i \in DOMAIN stmt_data.rows |-> stmt_data.rows[i]["stmt_type"]]

\* A call has returned that got past the checks a builder makes before its
\* first loop, with use_stmt_type on.
TypedRowsCall ==
    /\ use_stmt_type
    /\ \/ StmtsCall /\ check_extra_evidence(ret.extra_evidence, Len(stmt_data.stmts)) = NoError
       \/ DfCall /\ df_checks(stmt_data) = NoError

\* The type block of row i of the matrix returned.
TypeBlock(i) ==
    SubSeq(ret.stmt_arr.data[i], Len(source_list) + 1, Len(source_list) + NumTypes)

\* <<0, .., 1, .., 0>> with the 1 at the place kind has in all_stmt_types.
OneHot(kind) == [k \in 1..NumTypes |-> IF all_stmt_types[k] = kind THEN 1 ELSE 0]

\* C12: with use_stmt_type on, in both builders the type block of every row is
\* as wide as the type map and has a single 1, at the index of the item's kind;
\* and when an item's kind is not in the type map the call raises a
\* ConfigurationError and returns no matrix.
C12_TypeBlock ==
    TypedRowsCall
    => IF \A i \in DOMAIN ItemKinds : ItemKinds[i] \in DOMAIN stmt_type_map
       THEN /\ ret.err = NoError
            /\ \A i \in DOMAIN ItemKinds :
                  /\ TypeBlock(i) = OneHot(ItemKinds[i])
                  /\ Cardinality({ k \in 1..NumTypes : TypeBlock(i)[k] = 1 }) = 1
                  /\ TypeBlock(i)[stmt_type_map[ItemKinds[i]] + 1] = 1
       ELSE /\ IsConfigurationError(ret.err)
            /\ ret.stmt_arr = NoMatrix

\* What holds: the same, with the KeyError of the lookup in stmt_type_map in
\* the place of the ConfigurationError.
C12_TypeBlockOrKeyError ==
    TypedRowsCall
    => IF \A i \in DOMAIN ItemKinds : ItemKinds[i] \in DOMAIN stmt_type_map
       THEN /\ ret.err = NoError
            /\ \A i \in DOMAIN ItemKinds :
                  /\ TypeBlock(i) = OneHot(ItemKinds[i])
                  /\ Cardinality({ k \in 1..NumTypes : TypeBlock(i)[k] = 1 }) = 1
                  /\ TypeBlock(i)[stmt_type_map[ItemKinds[i]] + 1] = 1
       ELSE /\ ret.err = KeyError("stmt_type_map")
            /\ ~IsConfigurationError(ret.err)
            /\ ret.stmt_arr = NoMatrix
            /\ ret.calls = <<>>

\* A Phosphorylation statement has got the type block [1, 0] from the
\* statement-driven builder and from the table-driven one.
C12_ExampleStmts ==
    /\ TypedRowsCall /\ stmt_data.tag = "list" /\ ret.err = NoError
    /\ Len(stmt_data.stmts) >= 1 /\ stmt_data.stmts[1].type = "Phosphorylation"
    /\ TypeBlock(1) = <<1, 0>>

C12_ExampleDf ==
    /\ TypedRowsCall /\ stmt_data.tag = "DataFrame" /\ ret.err = NoError
    /\ Len(stmt_data.rows) = 2 /\ ItemKinds[2] = "Activation"
    /\ TypeBlock(2) = <<0, 1>>

====
